---- MODULE Spec2Model ----
(***************************************************************************)
(* The allow-list predicates of the no-unused-vars rule                    *)
(* (crates/oxc_linter/src/rules/eslint/no_unused_vars/allowed.rs) and the  *)
(* parallel file walk of oxlint (apps/oxlint/src/walk.rs).                 *)
(*                                                                         *)
(* The predicates are pure functions of a symbol, its declaration and the  *)
(* rule options.  A syntax tree is seen only through upward walks, so a    *)
(* symbol carries `parents`, the nodes Symbol::iter_parents yields (first  *)
(* the parent of the declaration, last the outermost), and `scopes`, the   *)
(* nodes that introduce the scopes of scope_ancestors(scope_id).  A node   *)
(* is a record whose `ast` field is its AstKind tag; the other fields are  *)
(* the fields of the node the code reads.                                  *)
(***************************************************************************)
EXTENDS Integers, Sequences, FiniteSets, Bags, TLC

\* Longest FormalParameters.items the model enumerates.
MaxParams == 2

\* Longest chain of parents above a variable declarator.
MaxLoopParents == 2

\* Most statements in the block that is the body of a loop.
MaxBlock == 2

\* Longest chain of scopes around a namespace.
MaxScopes == 3

\* Longest chain of parents above a binding rest element.
MaxRestParents == 3

\* Most entries a directory walk yields.
MaxEntries == 2

\* Most threads a directory walk runs.
MaxThreads == 2

VARIABLES
    self,       \* the rule options: [args, vars]
    symbol,     \* the unused symbol: [parents, scopes, is_root]
    param,      \* the FormalParameter handed to is_allowed_argument
    decl,       \* the VariableDeclarator handed to is_allowed_variable_declaration
    namespace,  \* the TSModuleDeclaration handed to is_allowed_ts_namespace
    pc,         \* "call" before the predicate runs, "done" after
    result      \* what the predicate returned

engine_vars == <<self, symbol, param, decl, namespace, pc, result>>

VARIABLES
    entries,    \* what the directory walk yields, one visit call each
    todo,       \* the indices of the entries not yet visited
    visitors,   \* the WalkCollector of each thread: [state, paths], and
                \* `sent`, history: the batches it has sent
    senders,    \* the number of live Sender handles of the channel
    channel,    \* the batches sent and not yet received
    main,       \* where Walk::paths stands
    collected,  \* the Vec that Walk::paths collects
    accepted    \* history: the paths the collectors pushed, in order

walk_vars ==
    <<entries, todo, visitors, senders, channel, main, collected, accepted>>

vars == <<engine_vars, walk_vars>>

Min(S) == CHOOSE x \in S : \A y \in S : x <= y

SeqsUpTo(S, n) == UNION {[1..k -> S] : k \in 0..n}

(***************************************************************************)
(* Options                                                                 *)
(***************************************************************************)
ArgsOption == {"None", "All", "AfterUsed"}

VarsOption == {"All", "Local"}

(***************************************************************************)
(* Syntax nodes                                                            *)
(***************************************************************************)
FunctionType ==
    {"FunctionDeclaration", "FunctionExpression",
     "TSDeclareFunction", "TSEmptyBodyFunctionExpression"}

MethodDefinitionKind == {"Constructor", "Method", "Get", "Set"}

MethodDefinitionType == {"MethodDefinition", "TSAbstractMethodDefinition"}

PropertyKind == {"Init", "Get", "Set"}

\* body = TRUE stands for Some(body), FALSE for None.  The two TypeScript
\* types are the types of functions written without a body.
Functions ==
    {f \in [ast : {"Function"}, type : FunctionType, body : BOOLEAN] :
        f.type \in {"TSDeclareFunction", "TSEmptyBodyFunctionExpression"}
            => ~f.body}

MethodDefinitions ==
    [ast : {"MethodDefinition"}, kind : MethodDefinitionKind,
     type : MethodDefinitionType, override : BOOLEAN, value : Functions]

ObjectProperties == [ast : {"ObjectProperty"}, kind : PropertyKind]

Program == [ast |-> "Program"]

ArrowFunctionExpression == [ast |-> "ArrowFunctionExpression"]

\* A binding pattern: its kind, and whether any name it introduces is read.
BindingPatternKind == {"BindingIdentifier", "ObjectPattern"}

BindingPatterns == [kind : BindingPatternKind, used : BOOLEAN]

FormalParameterAt(s) ==
    [span : {s}, modifier : BOOLEAN, pattern : BindingPatterns]

\* The items of a parameter list lie one after the other in the source:
\* the i-th item has span i.
ItemLists ==
    UNION {{items \in [1..n -> UNION {FormalParameterAt(s) : s \in 1..n}] :
              \A i \in 1..n : items[i].span = i} : n \in 1..MaxParams}

FormalParametersNode(items) == [ast |-> "FormalParameters", items |-> items]

\* No walk runs while a predicate of the rule is evaluated.
WalkIdle ==
    /\ entries = <<>>
    /\ todo = {}
    /\ visitors = <<>>
    /\ senders = 0
    /\ channel = <<>>
    /\ main = "idle"
    /\ collected = <<>>
    /\ accepted = <<>>

(***************************************************************************)
(* What a predicate returns.  `allowed` is the value a release build       *)
(* returns; `checks` lists, in order, the lookups the call performed;      *)
(* `debug_assert` is TRUE when a debug_assert! on the path fails, so that  *)
(* a debug build panics at that point instead of returning.                *)
(***************************************************************************)
Outcome(allowed, checks, debug_assert) ==
    [allowed |-> allowed, checks |-> checks, debug_assert |-> debug_assert]

NoOutcome == Outcome(FALSE, <<>>, FALSE)

(***************************************************************************)
(* is_allowed_argument                                                     *)
(***************************************************************************)
\* Faulty variant: the early return for None is missing.
args_never_none(opts) == FALSE

args_is_none(opts) == opts.args = "None"

args_is_all(opts) == opts.args = "All"

has_modifier(p) == p.modifier

is_destructuring_pattern(pattern) == pattern.kind # "BindingIdentifier"

has_any_used_binding(pattern) == pattern.used

\* symbol.iter_parents().find_map(as_formal_parameters): the index in
\* `parents` of the first FormalParameters node, 0 when there is none.
find_formal_parameters(parents) ==
    LET found == {i \in 1..Len(parents) : parents[i].ast = "FormalParameters"}
    IN  IF found = {} THEN 0 ELSE Min(found)

\* nodes().ancestor_kinds(params_id): the nodes above the parameter list.
ancestor_kinds(parents, params_id) ==
    SubSeq(parents, params_id + 1, Len(parents))

is_allowed_param_because_of_method(parents, p, params_id) ==
    LET parents_iter == ancestor_kinds(parents, params_id)
    IN  IF Len(parents_iter) < 1 THEN FALSE
        ELSE LET parent == parents_iter[1]
        IN  IF parent.ast = "Function" /\ parent.type = "TSDeclareFunction"
            THEN TRUE
            ELSE IF Len(parents_iter) < 2 THEN FALSE
            ELSE LET m == parents_iter[2]
            IN  IF m.ast = "MethodDefinition" /\ m.kind = "Set" THEN TRUE
                ELSE IF m.ast = "ObjectProperty" /\ m.kind = "Set" THEN TRUE
                ELSE IF m.ast = "Function"
                        /\ (~m.body \/ m.type = "TSDeclareFunction")
                THEN TRUE
                ELSE IF m.ast = "MethodDefinition"
                        /\ (m.value.type = "TSEmptyBodyFunctionExpression"
                            \/ m.override)
                THEN TRUE
                ELSE IF m.ast = "MethodDefinition" /\ m.kind = "Constructor"
                THEN has_modifier(p)
                ELSE IF m.ast = "MethodDefinition"
                        /\ m.type = "TSAbstractMethodDefinition"
                THEN TRUE
                ELSE FALSE

\* Faulty variant: the check for a destructuring pattern is missing.
never_non_positional(p) == FALSE

\* "unused non-positional arguments are never allowed"
is_non_positional(p) == is_destructuring_pattern(p.pattern)

\* The index of the first item with the span of `p`; 0 stands for None.
\* (Rust counts from 0: index i here is position i - 1 there, and the last
\* item, position len - 1 there, is index Len(items) here.)
find_position(items, p) ==
    LET found == {i \in 1..Len(items) : items[i].span = p.span}
    IN  IF found = {} THEN 0 ELSE Min(found)

\* Faulty variant: skip(position), which scans the parameter itself as well.
later_params_from_self(items, position) ==
    SubSeq(items, position, Len(items))

\* params.items.iter().skip(position + 1)
later_params(items, position) == SubSeq(items, position + 1, Len(items))

\* Faulty variant: a later parameter counts only when it is read, not when it
\* carries a modifier.
any_later_param_read(items, position) ==
    LET later == later_params(items, position)
    IN  \E j \in 1..Len(later) : has_any_used_binding(later[j].pattern)

any_later_param_used(items, position) ==
    LET later == later_params(items, position)
    IN  \E j \in 1..Len(later) :
            has_modifier(later[j]) \/ has_any_used_binding(later[j].pattern)

\* The else branch of `let Some((params, params_id)) = ...`
no_formal_parameters(checks) == Outcome(FALSE, checks, TRUE)

\* Faulty variant: a failed span lookup lets the parameter through.
no_position_allows(checks) == Outcome(TRUE, checks, TRUE)

\* The else branch of `let Some(position) = position`
no_position(checks) == Outcome(FALSE, checks, TRUE)

is_allowed_argument(opts, sym, p) ==
    IF args_is_none(opts) THEN Outcome(TRUE, <<>>, FALSE)
    ELSE LET params_id == find_formal_parameters(sym.parents)
    IN  IF params_id = 0 THEN no_formal_parameters(<<"iter_parents">>)
        ELSE LET params == sym.parents[params_id]
                 position == find_position(params.items, p)
        IN  IF is_allowed_param_because_of_method(sym.parents, p, params_id)
            THEN Outcome(TRUE, <<"iter_parents", "method">>, FALSE)
            ELSE IF args_is_all(opts)
            THEN Outcome(FALSE, <<"iter_parents", "method">>, FALSE)
            \* debug_assert_eq!(self.args, ArgsOption::AfterUsed) holds here:
            \* args is neither None nor All.
            ELSE IF is_non_positional(p)
            THEN Outcome(FALSE, <<"iter_parents", "method">>, FALSE)
            ELSE IF position = 0
            THEN no_position(<<"iter_parents", "method", "position">>)
            ELSE IF position = Len(params.items)
            THEN Outcome(FALSE, <<"iter_parents", "method", "position">>, FALSE)
            ELSE Outcome(any_later_param_used(params.items, position),
                         <<"iter_parents", "method", "position", "later">>,
                         FALSE)

(***************************************************************************)
(* The trees is_allowed_argument is run on                                 *)
(***************************************************************************)
\* Up to two nodes above a parameter list, with any combination of the
\* fields the code reads.  A MethodDefinition is the parent of its own
\* `value`, so below a MethodDefinition lies that Function.
Enclosures ==
    LET owners == Functions \cup {ArrowFunctionExpression}
        above(o) == Functions \cup ObjectProperties \cup {Program}
                    \cup (IF o.ast = "Function"
                          THEN {m \in MethodDefinitions : m.value = o}
                          ELSE {})
    IN  {<<>>} \cup {<<o>> : o \in owners}
        \cup UNION {{<<o, a>> : a \in above(o)} : o \in owners}

NoParam ==
    [span |-> 0, modifier |-> FALSE,
     pattern |-> [kind |-> "BindingIdentifier", used |-> FALSE]]

NoDecl == [kind |-> "let"]

NoNamespace == [declare |-> FALSE, kind |-> "Namespace"]

\* A parameter that is no item of the list found above it.
StrayParams == {p \in FormalParameterAt(0) : ~p.pattern.used}

\* Well-formed trees: the parameter is an item of the list that is its
\* parent.
InitListedArgument ==
    \E a \in ArgsOption, items \in ItemLists, e \in Enclosures :
        \E i \in 1..Len(items) :
            /\ self = [args |-> a, vars |-> "All"]
            /\ param = items[i]
            /\ symbol = [parents |-> <<FormalParametersNode(items)>> \o e,
                         scopes |-> <<>>, is_root |-> FALSE]

\* Malformed trees: the parameter is no item of the list above it, or there
\* is no list above it.
InitStrayArgument ==
    \E a \in ArgsOption, item \in FormalParameterAt(1), e \in Enclosures :
        \E p \in StrayParams, listed \in BOOLEAN :
            /\ self = [args |-> a, vars |-> "All"]
            /\ param = p
            /\ symbol =
                 [parents |->
                     IF listed THEN <<FormalParametersNode(<<item>>)>> \o e
                     ELSE e,
                  scopes |-> <<>>, is_root |-> FALSE]

InitArgument ==
    /\ InitListedArgument \/ InitStrayArgument
    /\ decl = NoDecl
    /\ namespace = NoNamespace
    /\ pc = "call"
    /\ result = NoOutcome
    /\ WalkIdle

CallIsAllowedArgument ==
    /\ pc = "call"
    /\ result' = is_allowed_argument(self, symbol, param)
    /\ pc' = "done"
    /\ UNCHANGED <<self, symbol, param, decl, namespace>>
    /\ UNCHANGED walk_vars

NextArgument == CallIsAllowedArgument

SpecArgument == InitArgument /\ [][NextArgument]_vars

(***************************************************************************)
(* The vocabulary of the claims about is_allowed_argument, read off the    *)
(* tree and not off the predicate.                                         *)
(***************************************************************************)
Done == pc = "done"

\* The symbol has a parameter list above it.
HasList == \E i \in 1..Len(symbol.parents) :
               symbol.parents[i].ast = "FormalParameters"

ListIndex == Min({i \in 1..Len(symbol.parents) :
                     symbol.parents[i].ast = "FormalParameters"})

Items == symbol.parents[ListIndex].items

\* The nodes above the list: Above[1] owns the list, Above[2] encloses it.
Above == SubSeq(symbol.parents, ListIndex + 1, Len(symbol.parents))

\* The parameter is an item of the list above it.
Listed == /\ HasList
          /\ param.span \in 1..Len(Items)
          /\ Items[param.span] = param

LaterItems == {Items[j] : j \in (param.span + 1)..Len(Items)}

OwnerIsOverloadSignature ==
    /\ Len(Above) >= 1
    /\ Above[1].ast = "Function"
    /\ Above[1].type = "TSDeclareFunction"

EnclosedBySetter ==
    /\ Len(Above) >= 2
    /\ Above[2].ast \in {"MethodDefinition", "ObjectProperty"}
    /\ Above[2].kind = "Set"

EnclosedByBodylessFunction ==
    /\ Len(Above) >= 2
    /\ Above[2].ast = "Function"
    /\ ~Above[2].body

EnclosedByOverloadOrOverride ==
    /\ Len(Above) >= 2
    /\ Above[2].ast = "MethodDefinition"
    /\ \/ Above[2].value.type = "TSEmptyBodyFunctionExpression"
       \/ Above[2].override

ConstructorProperty ==
    /\ Len(Above) >= 2
    /\ Above[2].ast = "MethodDefinition"
    /\ Above[2].kind = "Constructor"
    /\ param.modifier

EnclosedByAbstractMethod ==
    /\ Len(Above) >= 2
    /\ Above[2].ast = "MethodDefinition"
    /\ Above[2].type = "TSAbstractMethodDefinition"

\* One of the six method/overload shortcut conditions holds.
MethodShortcut ==
    /\ HasList
    /\ \/ OwnerIsOverloadSignature
       \/ EnclosedBySetter
       \/ EnclosedByBodylessFunction
       \/ EnclosedByOverloadOrOverride
       \/ ConstructorProperty
       \/ EnclosedByAbstractMethod

\* A constructor with a body that is no overload and no override.
InPlainConstructor ==
    /\ HasList
    /\ Len(Above) >= 2
    /\ Above[1].ast = "Function"
    /\ Above[1].body
    /\ Above[1].type \in {"FunctionDeclaration", "FunctionExpression"}
    /\ Above[2].ast = "MethodDefinition"
    /\ Above[2].kind = "Constructor"
    /\ ~Above[2].override

NoItemRead == \A j \in 1..Len(Items) : ~Items[j].pattern.used

C2_DestructuringNeverAllowed ==
    (/\ Done
     /\ self.args = "AfterUsed"
     /\ Listed
     /\ param.pattern.kind # "BindingIdentifier")
    => ~result.allowed

\* C2 amended: under AfterUsed an unused destructuring parameter to which
\* no method/overload shortcut applies is never allowed, whatever its
\* position and whatever follows it.
C2_DestructuringNotAllowedWithoutShortcut ==
    (/\ Done
     /\ self.args = "AfterUsed"
     /\ Listed
     /\ param.pattern.kind # "BindingIdentifier"
     /\ ~MethodShortcut)
    => ~result.allowed

\* f({ a }, b) with b read: a simple first parameter would be allowed, the
\* destructuring one is not.
C2_Witness ==
    /\ Done
    /\ self.args = "AfterUsed"
    /\ Listed
    /\ param.pattern.kind # "BindingIdentifier"
    /\ ~MethodShortcut
    /\ param.span = 1
    /\ Len(Items) = 2
    /\ Items[2].pattern.used
    /\ ~result.allowed

C4_ConstructorParameters ==
    (/\ Done
     /\ self.args = "AfterUsed"
     /\ Listed
     /\ InPlainConstructor
     /\ NoItemRead)
    => /\ param.modifier => result.allowed
       /\ ~param.modifier =>
             (result.allowed <=> \E q \in LaterItems : q.modifier)

\* C4 amended: the same, where the parameter without a modifier has a
\* simple pattern; a destructuring parameter without a modifier is not
\* allowed.
C4_ConstructorSimpleParameters ==
    (/\ Done
     /\ self.args = "AfterUsed"
     /\ Listed
     /\ InPlainConstructor
     /\ NoItemRead)
    => /\ param.modifier => result.allowed
       /\ (~param.modifier /\ param.pattern.kind = "BindingIdentifier") =>
             (result.allowed <=> \E q \in LaterItems : q.modifier)
       /\ (~param.modifier /\ param.pattern.kind # "BindingIdentifier") =>
             ~result.allowed

\* constructor(unused, public property): unused is allowed.
C4_Witness ==
    /\ Done
    /\ self.args = "AfterUsed"
    /\ Listed
    /\ InPlainConstructor
    /\ NoItemRead
    /\ param.span = 1
    /\ ~param.modifier
    /\ param.pattern.kind = "BindingIdentifier"
    /\ Len(Items) = 2
    /\ Items[2].modifier
    /\ result.allowed

\* C5: under None every parameter of every tree is allowed, and the call
\* performs no lookup at all.
C5_NoneAlwaysAllowed ==
    (Done /\ self.args = "None")
    => /\ result.allowed
       /\ result.checks = <<>>
       /\ ~result.debug_assert

\* A parameter with no list above it, under None.
C5_Witness ==
    /\ Done
    /\ self.args = "None"
    /\ ~HasList
    /\ result.allowed

\* C6 as stated: a parameter with no list above it, or that is no item of
\* the list above it, is not allowed by a release build.
C6_MalformedNotAllowed ==
    (Done /\ (~HasList \/ ~Listed)) => ~result.allowed

\* C6 amended: unless the mode is None, a parameter with no list above it is
\* not allowed, and a parameter that is no item of the list above it is not
\* allowed unless a method/overload shortcut applies.
C6_MalformedNotAllowedWhenChecked ==
    (Done /\ self.args # "None")
    => /\ ~HasList => ~result.allowed
       /\ (HasList /\ ~Listed /\ ~MethodShortcut) => ~result.allowed

\* The span lookup fails in front of a read parameter.
C6_Witness ==
    /\ Done
    /\ self.args = "AfterUsed"
    /\ HasList
    /\ ~Listed
    /\ ~MethodShortcut
    /\ param.pattern.kind = "BindingIdentifier"
    /\ Items[1].pattern.used
    /\ result.debug_assert
    /\ ~result.allowed

(***************************************************************************)
(* is_allowed_variable_declaration                                         *)
(***************************************************************************)
VariableDeclarationKind == {"var", "const"}

VariableDeclarators == [kind : VariableDeclarationKind]

StatementKinds == {"ReturnStatement", "ExpressionStatement"}

BlockStatements ==
    [ast : {"BlockStatement"},
     body : SeqsUpTo([ast : StatementKinds], MaxBlock)]

\* The body of a loop: one statement, or a block of statements.
LoopBodies == [ast : StatementKinds] \cup BlockStatements

ForStatements == [ast : {"ForInStatement", "ForOfStatement"}, body : LoopBodies]

TransparentKinds ==
    {"ParenthesizedExpression", "VariableDeclaration", "BindingIdentifier",
     "SimpleAssignmentTarget", "AssignmentTarget"}

LoopParents ==
    [ast : TransparentKinds \cup {"ForStatement", "Program"}]
    \cup ForStatements

\* Faulty variant: a return statement anywhere in the block counts.
for_body_returns_anywhere(body) ==
    IF body.ast = "ReturnStatement" THEN TRUE
    ELSE IF body.ast = "BlockStatement"
    THEN \E i \in 1..Len(body.body) : body.body[i].ast = "ReturnStatement"
    ELSE FALSE

\* The match on the body of a for-in / for-of statement.
for_body_returns(body) ==
    IF body.ast = "ReturnStatement" THEN TRUE
    ELSE IF body.ast = "BlockStatement"
    THEN Len(body.body) > 0 /\ body.body[1].ast = "ReturnStatement"
    ELSE FALSE

RECURSIVE is_declared_in_for_of_loop(_)
is_declared_in_for_of_loop(parents) ==
    IF parents = <<>> THEN FALSE
    ELSE LET parent == Head(parents)
    IN  IF parent.ast \in TransparentKinds
        THEN is_declared_in_for_of_loop(Tail(parents))
        ELSE IF parent.ast \in {"ForInStatement", "ForOfStatement"}
        THEN for_body_returns(parent.body)
        ELSE FALSE

is_var(d) == d.kind = "var"

vars_is_local(opts) == opts.vars = "Local"

is_allowed_variable_declaration(opts, sym, d) ==
    IF is_var(d) /\ vars_is_local(opts) /\ sym.is_root
    THEN Outcome(TRUE, <<>>, FALSE)
    ELSE IF is_declared_in_for_of_loop(sym.parents)
    THEN Outcome(TRUE, <<"iter_parents">>, FALSE)
    ELSE Outcome(FALSE, <<"iter_parents">>, FALSE)

InitVariable ==
    /\ \E d \in VariableDeclarators, v \in VarsOption, root \in BOOLEAN,
          ps \in SeqsUpTo(LoopParents, MaxLoopParents) :
            /\ decl = d
            /\ self = [args |-> "AfterUsed", vars |-> v]
            /\ symbol = [parents |-> ps, scopes |-> <<>>, is_root |-> root]
    /\ param = NoParam
    /\ namespace = NoNamespace
    /\ pc = "call"
    /\ result = NoOutcome
    /\ WalkIdle

CallIsAllowedVariableDeclaration ==
    /\ pc = "call"
    /\ result' = is_allowed_variable_declaration(self, symbol, decl)
    /\ pc' = "done"
    /\ UNCHANGED <<self, symbol, param, decl, namespace>>
    /\ UNCHANGED walk_vars

NextVariable == CallIsAllowedVariableDeclaration

SpecVariable == InitVariable /\ [][NextVariable]_vars

\* The root-scope `var` + LocalOnly rule exempts the declarator.
RootVarExempt == decl.kind = "var" /\ self.vars = "Local" /\ symbol.is_root

\* The body of the loop is a return statement, or a block that starts
\* with one.
ReturnsFirst(loop) ==
    \/ loop.body.ast = "ReturnStatement"
    \/ /\ loop.body.ast = "BlockStatement"
       /\ loop.body.body # <<>>
       /\ loop.body.body[1].ast = "ReturnStatement"

\* C7: a declarator the root-scope rule does not exempt is allowed exactly
\* when the walk up from it crosses only transparent wrappers before it
\* reaches a for-in / for-of statement whose body is a return statement or
\* a block whose first statement is one.
C7_ForLoopVariable ==
    (Done /\ ~RootVarExempt)
    => (result.allowed <=>
           \E k \in 1..Len(symbol.parents) :
               /\ symbol.parents[k].ast \in {"ForInStatement", "ForOfStatement"}
               /\ \A j \in 1..(k - 1) :
                      symbol.parents[j].ast \in
                          {"ParenthesizedExpression", "VariableDeclaration",
                           "BindingIdentifier", "SimpleAssignmentTarget",
                           "AssignmentTarget"}
               /\ ReturnsFirst(symbol.parents[k]))

\* for (const x of xs) { return; f(); }
C7_Witness ==
    /\ Done
    /\ ~RootVarExempt
    /\ Len(symbol.parents) = 2
    /\ symbol.parents[1].ast = "VariableDeclaration"
    /\ symbol.parents[2].ast = "ForOfStatement"
    /\ symbol.parents[2].body.ast = "BlockStatement"
    /\ Len(symbol.parents[2].body.body) = 2
    /\ symbol.parents[2].body.body[1].ast = "ReturnStatement"
    /\ symbol.parents[2].body.body[2].ast = "ExpressionStatement"
    /\ result.allowed

(***************************************************************************)
(* is_allowed_ts_namespace                                                 *)
(***************************************************************************)
TSModuleDeclarationKind == {"Global", "Module", "Namespace"}

TSModuleDeclarations ==
    [ast : {"TSModuleDeclaration"}, declare : BOOLEAN,
     kind : TSModuleDeclarationKind]

\* The nodes that introduce a scope.
ScopeNodes ==
    TSModuleDeclarations \cup [ast : {"Program", "BlockStatement"}]

kind_is_global(n) == n.kind = "Global"

\* Faulty variant: `global` is not taken for ambient.
is_declared_namespace(n) == n.declare

is_ambient_namespace(n) == n.declare \/ kind_is_global(n)

\* scope_ancestors(scope_id) mapped to the node of each scope: `scopes`.
is_in_declared_module(sym) ==
    \E i \in 1..Len(sym.scopes) :
        /\ sym.scopes[i].ast = "TSModuleDeclaration"
        /\ is_ambient_namespace(sym.scopes[i])

is_allowed_ts_namespace(sym, n) ==
    IF is_ambient_namespace(n) THEN Outcome(TRUE, <<>>, FALSE)
    ELSE Outcome(is_in_declared_module(sym), <<"scope_ancestors">>, FALSE)

InitNamespace ==
    /\ \E n \in TSModuleDeclarations, ss \in SeqsUpTo(ScopeNodes, MaxScopes) :
            /\ namespace = [declare |-> n.declare, kind |-> n.kind]
            /\ symbol = [parents |-> <<>>, scopes |-> ss, is_root |-> FALSE]
    /\ self = [args |-> "AfterUsed", vars |-> "All"]
    /\ param = NoParam
    /\ decl = NoDecl
    /\ pc = "call"
    /\ result = NoOutcome
    /\ WalkIdle

CallIsAllowedTsNamespace ==
    /\ pc = "call"
    /\ result' = is_allowed_ts_namespace(symbol, namespace)
    /\ pc' = "done"
    /\ UNCHANGED <<self, symbol, param, decl, namespace>>
    /\ UNCHANGED walk_vars

NextNamespace == CallIsAllowedTsNamespace

SpecNamespace == InitNamespace /\ [][NextNamespace]_vars

\* C8: a namespace is allowed exactly when it is ambient itself (declared,
\* or of kind global) or one of the scopes around the symbol was introduced
\* by an ambient module declaration, at any depth.
C8_AmbientNamespace ==
    Done
    => (result.allowed <=>
           \/ namespace.declare
           \/ namespace.kind = "Global"
           \/ \E i \in 1..Len(symbol.scopes) :
                  /\ symbol.scopes[i].ast = "TSModuleDeclaration"
                  /\ \/ symbol.scopes[i].declare
                     \/ symbol.scopes[i].kind = "Global")

\* A namespace that is not declared, two scopes inside `global`.
C8_Witness ==
    /\ Done
    /\ ~namespace.declare
    /\ namespace.kind = "Namespace"
    /\ Len(symbol.scopes) = 3
    /\ symbol.scopes[1] =
           [ast |-> "TSModuleDeclaration", declare |-> FALSE, kind |-> "Namespace"]
    /\ symbol.scopes[2] =
           [ast |-> "TSModuleDeclaration", declare |-> FALSE, kind |-> "Global"]
    /\ symbol.scopes[3].ast = "Program"
    /\ result.allowed

(***************************************************************************)
(* is_allowed_binding_rest_element                                         *)
(***************************************************************************)
RestParents ==
    Functions
    \cup {ArrowFunctionExpression, Program, FormalParametersNode(<<>>)}

\* Function::is_typescript_syntax: the function is written in a type-only
\* form, one that has no body.
is_typescript_syntax(f) ==
    f.type \in {"TSDeclareFunction", "TSEmptyBodyFunctionExpression"}
    \/ ~f.body

\* Faulty variant: the outermost Function decides, not the nearest.
RECURSIVE outermost_function_is_typescript(_)
outermost_function_is_typescript(parents) ==
    IF parents = <<>> THEN FALSE
    ELSE IF \E i \in 2..Len(parents) : parents[i].ast = "Function"
    THEN outermost_function_is_typescript(Tail(parents))
    ELSE IF Head(parents).ast = "Function"
    THEN is_typescript_syntax(Head(parents))
    ELSE FALSE

RECURSIVE is_allowed_binding_rest_element(_)
is_allowed_binding_rest_element(parents) ==
    IF parents = <<>> THEN FALSE
    ELSE IF Head(parents).ast = "Function"
    THEN is_typescript_syntax(Head(parents))
    ELSE is_allowed_binding_rest_element(Tail(parents))

InitRest ==
    /\ \E ps \in SeqsUpTo(RestParents, MaxRestParents) :
            symbol = [parents |-> ps, scopes |-> <<>>, is_root |-> FALSE]
    /\ self = [args |-> "AfterUsed", vars |-> "All"]
    /\ param = NoParam
    /\ decl = NoDecl
    /\ namespace = NoNamespace
    /\ pc = "call"
    /\ result = NoOutcome
    /\ WalkIdle

CallIsAllowedBindingRestElement ==
    /\ pc = "call"
    /\ result' = Outcome(is_allowed_binding_rest_element(symbol.parents),
                         <<"iter_parents">>, FALSE)
    /\ pc' = "done"
    /\ UNCHANGED <<self, symbol, param, decl, namespace>>
    /\ UNCHANGED walk_vars

NextRest == CallIsAllowedBindingRestElement

SpecRest == InitRest /\ [][NextRest]_vars

FunctionsAbove == {i \in 1..Len(symbol.parents) :
                      symbol.parents[i].ast = "Function"}

FileNames ==
    {<<"a", ".", "js">>, <<"b", ".", "vue">>, <<"a", ".", "css">>,
     <<"a", ".", "min", ".", "js">>, <<"a", "-", "min", ".", "js">>,
     <<"a", "_", "min", ".", "js">>, <<".", "js">>, <<"a">>}

DirEntries ==
    [ok : {TRUE}, file_type : {"file"}, name : FileNames]
    \cup [ok : {TRUE}, file_type : {"dir", "none"}, name : {<<"a", ".", "js">>}]
    \cup [ok : {TRUE}, file_type : {"file"}, name : {<<>>}]

WalkError == [ok |-> FALSE, file_type |-> "none", name |-> <<>>]

\* with_extensions(Extensions(["js", "vue"]))
Extensions == {<<"js">>, <<"vue">>}

\* str::contains
contains(name, pattern) ==
    \E i \in 1..(Len(name) - Len(pattern) + 1) :
        SubSeq(name, i, i + Len(pattern) - 1) = pattern

\* Path::extension: what follows the last dot of the file name, unless
\* there is no dot or nothing stands before it.  <<"none">> stands for None.
extension(name) ==
    LET dots == {i \in 1..Len(name) : name[i] = "."}
        last == CHOOSE i \in dots : \A j \in dots : j <= i
    IN  IF dots = {} THEN <<"none">>
        ELSE IF last = 1 THEN <<"none">>
        ELSE SubSeq(name, last + 1, Len(name))

MinifiedMarkers ==
    {<<".", "min", ".">>, <<"-", "min", ".">>, <<"_", "min", ".">>}

is_wanted_entry(dir_entry, extensions) ==
    IF dir_entry.file_type = "none" THEN FALSE
    ELSE IF dir_entry.file_type = "dir" THEN FALSE
    ELSE IF dir_entry.name = <<>> THEN FALSE
    ELSE IF \E e \in MinifiedMarkers : contains(dir_entry.name, e) THEN FALSE
    ELSE IF extension(dir_entry.name) = <<"none">> THEN FALSE
    ELSE extension(dir_entry.name) \in extensions

\* Faulty variant: the batch is not sent.
send_lost(ch, batch) == ch

\* Sender::send on the unbounded channel
send(ch, batch) == Append(ch, batch)

EngineIdle ==
    /\ self = [args |-> "AfterUsed", vars |-> "All"]
    /\ symbol = [parents |-> <<>>, scopes |-> <<>>, is_root |-> FALSE]
    /\ param = NoParam
    /\ decl = NoDecl
    /\ namespace = NoNamespace
    /\ pc = "idle"
    /\ result = NoOutcome

\* Walk::paths has made the channel, whose one Sender the builder holds, and
\* calls WalkParallel::visit.
InitWalk ==
    /\ \E es \in SeqsUpTo(DirEntries \cup {WalkError}, MaxEntries),
          n \in 1..MaxThreads :
            /\ entries = es
            /\ todo = 1..Len(es)
            /\ visitors =
                 [t \in 1..n |-> [state |-> "unbuilt", paths |-> <<>>, sent |-> <<>>]]
    /\ senders = 1
    /\ channel = <<>>
    /\ main = "visit"
    /\ collected = <<>>
    /\ accepted = <<>>
    /\ EngineIdle

\* WalkBuilder::build: a collector with a clone of the builder's sender.
Build(t) ==
    /\ main = "visit"
    /\ visitors[t].state = "unbuilt"
    /\ visitors' = [visitors EXCEPT ![t].state = "running"]
    /\ senders' = senders + 1
    /\ UNCHANGED <<entries, todo, channel, main, collected, accepted>>
    /\ UNCHANGED engine_vars

\* WalkCollector::visit, on an entry no thread has visited yet.
Visit(t, i) ==
    /\ visitors[t].state = "running"
    /\ i \in todo
    /\ todo' = todo \ {i}
    /\ LET entry == entries[i]
           wanted == entry.ok /\ is_wanted_entry(entry, Extensions)
       IN  /\ visitors' =
                IF wanted
                THEN [visitors EXCEPT ![t].paths = Append(@, entry.name)]
                ELSE visitors
           /\ accepted' =
                IF wanted THEN Append(accepted, entry.name) ELSE accepted
    /\ UNCHANGED <<entries, senders, channel, main, collected>>
    /\ UNCHANGED engine_vars

\* The thread ends and drops its collector: Drop sends the paths taken out
\* of the collector, then the collector's sender is dropped.
Drop(t) ==
    /\ visitors[t].state = "running"
    /\ channel' = send(channel, visitors[t].paths)
    /\ visitors' =
         [visitors EXCEPT ![t] =
             [state |-> "dropped", paths |-> <<>>,
              sent |-> Append(@.sent, @.paths)]]
    /\ senders' = senders - 1
    /\ UNCHANGED <<entries, todo, main, collected, accepted>>
    /\ UNCHANGED engine_vars

\* WalkParallel::visit returns once every thread has ended.
VisitReturns ==
    /\ main = "visit"
    /\ \A t \in DOMAIN visitors : visitors[t].state = "dropped"
    /\ main' = "drop_builder"
    /\ UNCHANGED <<entries, todo, visitors, senders, channel, collected, accepted>>
    /\ UNCHANGED engine_vars

\* drop(builder)
DropBuilder ==
    /\ main = "drop_builder"
    /\ senders' = senders - 1
    /\ main' = "recv"
    /\ UNCHANGED <<entries, todo, visitors, channel, collected, accepted>>
    /\ UNCHANGED engine_vars

\* receiver.into_iter().flatten().collect(): one batch is received.
Recv ==
    /\ main = "recv"
    /\ channel # <<>>
    /\ collected' = collected \o Head(channel)
    /\ channel' = Tail(channel)
    /\ UNCHANGED <<entries, todo, visitors, senders, main, accepted>>
    /\ UNCHANGED engine_vars

\* The iterator ends: the channel is empty and every sender is dropped.
RecvEnd ==
    /\ main = "recv"
    /\ channel = <<>>
    /\ senders = 0
    /\ main' = "done"
    /\ UNCHANGED <<entries, todo, visitors, senders, channel, collected, accepted>>
    /\ UNCHANGED engine_vars

NextWalk ==
    \/ \E t \in DOMAIN visitors : Build(t)
    \/ \E t \in DOMAIN visitors : \E i \in todo : Visit(t, i)
    \/ \E t \in DOMAIN visitors : Drop(t)
    \/ VisitReturns
    \/ DropBuilder
    \/ Recv
    \/ RecvEnd

SpecWalk == InitWalk /\ [][NextWalk]_vars

BagOfSeq(q) ==
    LET elems == {q[i] : i \in 1..Len(q)}
    IN  [e \in elems |-> Cardinality({i \in 1..Len(q) : q[i] = e})]

\* C10: when Walk::paths returns, whatever the threads and their
\* interleaving, the result holds every path a collector accepted, as often
\* as it was accepted, and nothing else; every accepted path is a file
\* without a minified marker whose extension is configured; every
\* collector sent its batch exactly once; and every sender, the builder's
\* and the collectors', is dropped.
C10_PathsCollectsEveryBatch ==
    main = "done"
    => /\ BagOfSeq(collected) = BagOfSeq(accepted)
       /\ \A i \in 1..Len(collected) :
             /\ \E j \in 1..Len(entries) :
                    /\ entries[j].ok
                    /\ entries[j].file_type = "file"
                    /\ entries[j].name = collected[i]
             /\ ~\E k \in 1..(Len(collected[i]) - 2) :
                    /\ collected[i][k] \in {".", "-", "_"}
                    /\ collected[i][k + 1] = "min"
                    /\ collected[i][k + 2] = "."
             /\ collected[i][Len(collected[i])] \in {"js", "vue"}
             /\ collected[i][Len(collected[i]) - 1] = "."
       /\ \A t \in DOMAIN visitors :
             visitors[t].state = "dropped" /\ Len(visitors[t].sent) = 1
       /\ senders = 0
       /\ channel = <<>>

\* Two threads each accepted a path, and both paths came back.
C10_Witness ==
    /\ main = "done"
    /\ Len(entries) = 2
    /\ Len(visitors) = 2
    /\ visitors[1].sent = <<<<entries[2].name>>>>
    /\ visitors[2].sent = <<<<entries[1].name>>>>
    /\ entries[1].name # entries[2].name
    /\ Len(collected) = 2

====
